---- MODULE Spec2Model ----
(***************************************************************************)
(* Model of apps/poker-desktop/src-tauri/src/main.rs: the Tauri commands   *)
(* of the poker desktop client (connectivity probe, login, logout, token   *)
(* retrieval, table operations), the OS keyring slot they share and the    *)
(* wall clock the expiry check reads.                                      *)
(*                                                                         *)
(* Time is counted in hours.  An Option<T> is a sequence of length 0 or 1, *)
(* a Result<T, String> is a record [ok, val, err] whose error message is   *)
(* the sequence of the pieces that format!() concatenates.                 *)
(***************************************************************************)
EXTENDS Integers, Sequences, FiniteSets, TLC

VARIABLES
    now,      \* Utc::now(), in hours
    keyring,  \* the keyring slot ("primo-poker", "auth-token"): None or Some(json)
    last,     \* the most recent command invocation and what it did
    issued,   \* the credential of the most recent successful login, if any
    inflight  \* a get_auth_token between its get_password and its
              \* delete_password, when commands run concurrently

vars == <<now, keyring, last, issued, inflight>>

\* ---------------------------------------------------------------- bounds
MaxTime == 36
TickHours == 12

\* ------------------------------------------------------- program constants
TokenLifetimeHours == 24

\* ------------------------------------------------------- Option and Result
None == <<>>
Some(x) == <<x>>
IsSome(o) == Len(o) = 1
Unwrap(o) == o[1]

Ok(v) == [ok |-> TRUE, val |-> v, err |-> <<>>]
Err(m) == [ok |-> FALSE, val |-> <<>>, err |-> m]

Unit == <<>>

\* --------------------------------------------------------------- AuthToken
AuthToken(a, r, e) == [access_token |-> a, refresh_token |-> r, expires_at |-> e]

\* Mutant: the serialised credential carries its two tokens exchanged.
ToStringAuthTokenExchanged(token, serFault) ==
    IF serFault
    THEN Err(<<"serialize">>)
    ELSE Ok(<<token.refresh_token, token.access_token, token.expires_at>>)

\* serde_json::to_string(&token): the fields in declaration order.
ToStringAuthToken(token, serFault) ==
    IF serFault
    THEN Err(<<"serialize">>)
    ELSE Ok(<<token.access_token, token.refresh_token, token.expires_at>>)

\* Mutant: the two token fields read back in the wrong order.
FromStrAuthTokenSwapped(token_json) ==
    IF Len(token_json) = 3
    THEN Ok(AuthToken(token_json[2], token_json[1], token_json[3]))
    ELSE Err(<<"missing field">>)

\* serde_json::from_str::<AuthToken>(&token_json)
FromStrAuthToken(token_json) ==
    IF Len(token_json) = 3
    THEN Ok(AuthToken(token_json[1], token_json[2], token_json[3]))
    ELSE Err(<<"missing field">>)

\* ----------------------------------------------------------------- keyring
\* Entry::new("primo-poker", "auth-token")
EntryNew(entryFault) ==
    IF entryFault THEN Err(<<"entry">>) ELSE Ok(<<"primo-poker", "auth-token">>)

\* entry.get_password()
GetPassword(slot, getFault) ==
    IF getFault THEN Err(<<"PlatformFailure">>)
    ELSE IF slot = None THEN Err(<<"NoEntry">>)
    ELSE Ok(Unwrap(slot))

\* entry.set_password(&token_json): the result and the slot afterwards
SetPassword(slot, token_json, setFault) ==
    IF setFault
    THEN [res |-> Err(<<"PlatformFailure">>), slot |-> slot]
    ELSE [res |-> Ok(Unit), slot |-> Some(token_json)]

\* entry.delete_password(): the result and the slot afterwards
DeletePassword(slot, deleteFault) ==
    IF deleteFault THEN [res |-> Err(<<"PlatformFailure">>), slot |-> slot]
    ELSE IF slot = None THEN [res |-> Err(<<"NoEntry">>), slot |-> slot]
    ELSE [res |-> Ok(Unit), slot |-> None]

\* What a command hands back to the model: its result, the slot afterwards,
\* the HTTP requests it sent and the keyring operations it performed.
Outcome(result, slot, sent, storeOps) ==
    [result |-> result, slot |-> slot, sent |-> sent, storeOps |-> storeOps]

\* The environment's faults during one invocation.
NoFaults ==
    [client |-> FALSE, entry |-> FALSE, get |-> FALSE, set |-> FALSE,
     delete |-> FALSE, ser |-> FALSE]

\* At most one fault per invocation: every command stops at, or swallows,
\* the first fault it meets, so one fault reaches each of its branches.
Faults(kinds) ==
    {NoFaults} \cup { [NoFaults EXCEPT ![k] = TRUE] : k \in kinds }

\* ----------------------------------------------------------- expiry policy
\* Mutant: the expiry check is left out of the read.
NotExpiredAlways(token, t) == TRUE

\* Mutant: a credential expiring this very instant still counts as usable.
NotExpiredInclusive(token, t) == token.expires_at >= t

\* token.expires_at > Utc::now()
NotExpired(token, t) == token.expires_at > t

\* ----------------------------------------------------------- get_auth_token
get_auth_token(slot, t, f) ==
    LET entry == EntryNew(f.entry)
        got == GetPassword(slot, f.get)
        parsed == FromStrAuthToken(got.val)
        del == DeletePassword(slot, f.delete)
    IN  IF ~entry.ok
        THEN Outcome(Err(<<"Keyring error: ">> \o entry.err), slot, <<>>, <<>>)
        ELSE IF ~got.ok
        THEN Outcome(Ok(None), slot, <<>>, <<"get">>)
        ELSE IF ~parsed.ok
        THEN Outcome(Err(<<"Failed to parse token: ">> \o parsed.err), slot,
                     <<>>, <<"get">>)
        ELSE IF NotExpired(parsed.val, t)
        THEN Outcome(Ok(Some(parsed.val)), slot, <<>>, <<"get">>)
        ELSE Outcome(Ok(None), del.slot, <<>>, <<"get", "delete">>)

\* Mutant: the NoEntry arm is missing, so logging out twice is an error.
logout_strict(slot, f) ==
    LET entry == EntryNew(f.entry)
        del == DeletePassword(slot, f.delete)
    IN  IF ~entry.ok
        THEN Outcome(Err(<<"Keyring error: ">> \o entry.err), slot, <<>>, <<>>)
        ELSE IF del.res.ok
        THEN Outcome(Ok(Unit), del.slot, <<>>, <<"delete">>)
        ELSE Outcome(Err(<<"Failed to logout: ">> \o del.res.err), del.slot,
                     <<>>, <<"delete">>)

\* ------------------------------------------------------------------ logout
logout(slot, f) ==
    LET entry == EntryNew(f.entry)
        del == DeletePassword(slot, f.delete)
    IN  IF ~entry.ok
        THEN Outcome(Err(<<"Keyring error: ">> \o entry.err), slot, <<>>, <<>>)
        ELSE IF del.res.ok
        THEN Outcome(Ok(Unit), del.slot, <<>>, <<"delete">>)
        ELSE IF del.res.err = <<"NoEntry">>
        THEN Outcome(Ok(Unit), del.slot, <<>>, <<"delete">>)
        ELSE Outcome(Err(<<"Failed to logout: ">> \o del.res.err), del.slot,
                     <<>>, <<"delete">>)

\* Mutant: a failed read yields an empty token instead of an error.
get_token_from_keyring_or_default(slot, f) ==
    LET entry == EntryNew(f.entry)
        got == GetPassword(slot, f.get)
        parsed == FromStrAuthToken(got.val)
    IN  IF ~entry.ok THEN Err(<<"Keyring error: ">> \o entry.err)
        ELSE IF ~got.ok THEN Ok("")
        ELSE IF ~parsed.ok THEN Err(<<"Failed to parse token: ">> \o parsed.err)
        ELSE Ok(parsed.val.access_token)

\* ---------------------------------------------------- get_token_from_keyring
\* The result only; the slot is read and never changed.
get_token_from_keyring(slot, f) ==
    LET entry == EntryNew(f.entry)
        got == GetPassword(slot, f.get)
        parsed == FromStrAuthToken(got.val)
    IN  IF ~entry.ok THEN Err(<<"Keyring error: ">> \o entry.err)
        ELSE IF ~got.ok THEN Err(<<"Failed to get token: ">> \o got.err)
        ELSE IF ~parsed.ok THEN Err(<<"Failed to parse token: ">> \o parsed.err)
        ELSE Ok(parsed.val.access_token)

KeyringReadOps(f) == IF f.entry THEN <<>> ELSE <<"get">>

\* ---------------------------------------------------------------- get_user
MockUser == [id |-> "user123", email |-> "test@example.com", name |-> "Test User"]

get_user(slot, f) ==
    LET token == get_token_from_keyring(slot, f)
    IN  IF token.ok
        THEN Outcome(Ok(Some(MockUser)), slot, <<>>, KeyringReadOps(f))
        ELSE Outcome(Ok(None), slot, <<>>, KeyringReadOps(f))

\* -------------------------------------------------------------------- HTTP
\* create_http_client()
create_http_client(clientFault) ==
    IF clientFault
    THEN Err(<<"Failed to create HTTP client: ", "builder error">>)
    ELSE Ok([user_agent |-> "Primo-Poker-Desktop/1.0",
             accept |-> "application/json",
             timeout_secs |-> 30, connect_timeout_secs |-> 10])

\* A request as built by client.get(..)/client.post(..) and its .header() calls.
Request(client, method, url, authorization, content_type, body) ==
    [method |-> method, url |-> url,
     user_agent |-> client.user_agent, accept |-> client.accept,
     authorization |-> authorization, content_type |-> content_type,
     body |-> body]

Bearer(token) == <<"Bearer ", token>>

\* Mutant: only 200 counts as success.
IsSuccessOnly200(status) == status = 200

\* response.status().is_success()
IsSuccess(status) == status >= 200 /\ status <= 299

\* response.text().await.unwrap_or_else(|_| "Unknown error".to_string())
TextOrUnknown(body) == IF body.readable THEN body.text ELSE "Unknown error"

\* ------------------------------------------------------------- JSON bodies
\* A JSON object is a record of the fields the program looks at, each an
\* Option: None when the field is missing from the object.
JsonDoc(success, data, error, user, tokens, message) ==
    [success |-> success, data |-> data, error |-> error,
     user |-> user, tokens |-> tokens, message |-> message]

\* A JSON value in the data field: its kind and what it holds (the elements
\* of an array, or the one field record of an object; nothing for {}).
JsonValue(kind, items) == [kind |-> kind, items |-> items]

\* Mutant: unwrap_or_default() of a serde_json::Value is null, not {}.
EmptyObjectNull == JsonValue("null", <<>>)

EmptyObject == JsonValue("object", <<>>)

\* Table deserialization: the required fields must be there.
IsTable(t) == IsSome(t.id) /\ IsSome(t.blinds)

\* Mutant: the token fields default to the empty string when missing.
JsonLoginResponseLenient(body) ==
    IF ~body.readable THEN Err(<<"error decoding response body">>)
    ELSE IF ~IsSome(body.json) THEN Err(<<"expected value">>)
    ELSE LET doc == Unwrap(body.json)
             tokens == IF IsSome(doc.tokens) THEN Unwrap(doc.tokens)
                       ELSE [accessToken |-> None, refreshToken |-> None]
             field(o) == IF IsSome(o) THEN Unwrap(o) ELSE ""
         IN  IF ~IsSome(doc.user) THEN Err(<<"missing field user">>)
             ELSE IF ~IsSome(doc.message) THEN Err(<<"missing field message">>)
             ELSE Ok([user |-> Unwrap(doc.user),
                      tokens |->
                        [access_token |-> field(tokens.accessToken),
                         refresh_token |-> field(tokens.refreshToken)],
                      message |-> Unwrap(doc.message)])

\* response.json::<LoginResponse>()
JsonLoginResponse(body) ==
    IF ~body.readable THEN Err(<<"error decoding response body">>)
    ELSE IF ~IsSome(body.json) THEN Err(<<"expected value">>)
    ELSE LET doc == Unwrap(body.json)
         IN  IF ~IsSome(doc.user) THEN Err(<<"missing field user">>)
             ELSE IF ~IsSome(doc.tokens) THEN Err(<<"missing field tokens">>)
             ELSE IF ~IsSome(Unwrap(doc.tokens).accessToken)
             THEN Err(<<"missing field accessToken">>)
             ELSE IF ~IsSome(Unwrap(doc.tokens).refreshToken)
             THEN Err(<<"missing field refreshToken">>)
             ELSE IF ~IsSome(doc.message) THEN Err(<<"missing field message">>)
             ELSE Ok([user |-> Unwrap(doc.user),
                      tokens |->
                        [access_token |-> Unwrap(Unwrap(doc.tokens).accessToken),
                         refresh_token |-> Unwrap(Unwrap(doc.tokens).refreshToken)],
                      message |-> Unwrap(doc.message)])

\* Deserialization of the data field as Option<T>, T one of Vec<Table>
\* ("tables"), Table ("table") and serde_json::Value ("value").
JsonData(data, type) ==
    IF ~IsSome(data) THEN Ok(None)
    ELSE LET v == Unwrap(data)
         IN  IF type = "value" THEN Ok(Some(v))
             ELSE IF type = "tables"
             THEN IF v.kind = "array"
                     /\ \A i \in 1..Len(v.items) : IsTable(v.items[i])
                  THEN Ok(Some(v.items))
                  ELSE Err(<<"invalid type">>)
             ELSE IF v.kind = "object" /\ Len(v.items) = 1 /\ IsTable(v.items[1])
                  THEN Ok(Some(v.items[1]))
                  ELSE Err(<<"invalid type">>)

\* response.json::<ApiResponse<T>>()
JsonApiResponse(body, type) ==
    IF ~body.readable THEN Err(<<"error decoding response body">>)
    ELSE IF ~IsSome(body.json) THEN Err(<<"expected value">>)
    ELSE LET doc == Unwrap(body.json)
             data == JsonData(doc.data, type)
         IN  IF ~IsSome(doc.success) THEN Err(<<"missing field success">>)
             ELSE IF ~data.ok THEN Err(data.err)
             ELSE Ok([success |-> Unwrap(doc.success), data |-> data.val,
                      error |-> doc.error])

\* Mutant: the backend's message is dropped for the generic one.
ErrorMessageAlwaysUnknown(api_response) == "Unknown error"

\* api_response.error.map(|e| e.message).unwrap_or_else(|| "Unknown error")
ErrorMessage(api_response) ==
    IF IsSome(api_response.error)
    THEN Unwrap(api_response.error).message
    ELSE "Unknown error"

\* --------------------------------------------------- check_backend_connection
ConnectionStatus(connected, backend_url, latency_ms) ==
    [connected |-> connected, backend_url |-> backend_url,
     latency_ms |-> latency_ms]

\* start.elapsed().as_millis() as u32: the request times out after 30 s, so
\* the elapsed milliseconds are far below 2^32 and the cast keeps them.
LatencyMs(elapsed) == elapsed

\* Mutant: the transport error is propagated with ? like everywhere else.
check_backend_connection_propagating(slot, api_url, f, resp, elapsed) ==
    LET client == create_http_client(f.client)
        req == Request(client.val, "GET", <<api_url, "/api/health">>,
                       None, None, None)
    IN  IF ~client.ok THEN Outcome(Err(client.err), slot, <<>>, <<>>)
        ELSE IF resp.arrived
        THEN Outcome(Ok(ConnectionStatus(IsSuccess(resp.status), api_url,
                                         Some(LatencyMs(elapsed)))),
                     slot, <<req>>, <<>>)
        ELSE Outcome(Err(<<"error sending request">>), slot, <<req>>, <<>>)

check_backend_connection(slot, api_url, f, resp, elapsed) ==
    LET client == create_http_client(f.client)
        req == Request(client.val, "GET", <<api_url, "/api/health">>,
                       None, None, None)
    IN  IF ~client.ok THEN Outcome(Err(client.err), slot, <<>>, <<>>)
        ELSE IF resp.arrived
        THEN Outcome(Ok(ConnectionStatus(IsSuccess(resp.status), api_url,
                                         Some(LatencyMs(elapsed)))),
                     slot, <<req>>, <<>>)
        ELSE Outcome(Ok(ConnectionStatus(FALSE, api_url, None)),
                     slot, <<req>>, <<>>)

\* ------------------------------------------------------------------- login
\* Mutant: the result of set_password is discarded.
store_auth_token_ignoring_set_error(slot, token, f) ==
    LET entry == EntryNew(f.entry)
        token_json == ToStringAuthToken(token, f.ser)
        set == SetPassword(slot, token_json.val, f.set)
    IN  IF ~entry.ok
        THEN [res |-> Err(<<"Keyring error: ">> \o entry.err), slot |-> slot,
              ops |-> <<>>]
        ELSE IF ~token_json.ok
        THEN [res |-> Err(<<"Serialization error: ">> \o token_json.err),
              slot |-> slot, ops |-> <<>>]
        ELSE [res |-> Ok(Unit), slot |-> set.slot, ops |-> <<"set">>]

\* store_auth_token_secure(token): the result and the slot afterwards
store_auth_token_secure(slot, token, f) ==
    LET entry == EntryNew(f.entry)
        token_json == ToStringAuthToken(token, f.ser)
        set == SetPassword(slot, token_json.val, f.set)
    IN  IF ~entry.ok
        THEN [res |-> Err(<<"Keyring error: ">> \o entry.err), slot |-> slot,
              ops |-> <<>>]
        ELSE IF ~token_json.ok
        THEN [res |-> Err(<<"Serialization error: ">> \o token_json.err),
              slot |-> slot, ops |-> <<>>]
        ELSE IF ~set.res.ok
        THEN [res |-> Err(<<"Failed to store token: ">> \o set.res.err),
              slot |-> set.slot, ops |-> <<"set">>]
        ELSE [res |-> Ok(Unit), slot |-> set.slot, ops |-> <<"set">>]

\* Mutant: one hour of validity instead of twenty-four.
ExpiresAtOneHour(t) == t + 1

\* expires_at: Utc::now() + Duration::hours(24)
ExpiresAt(t) == t + TokenLifetimeHours

login(slot, t, api_url, email, password, f, resp) ==
    LET client == create_http_client(f.client)
        req == Request(client.val, "POST", <<api_url, "/api/auth/login">>,
                       None, Some("application/json"),
                       Some([username |-> email, password |-> password]))
        login_response == JsonLoginResponse(resp.body)
        auth_token == AuthToken(login_response.val.tokens.access_token,
                                login_response.val.tokens.refresh_token,
                                ExpiresAt(t))
        stored == store_auth_token_secure(slot, auth_token, f)
    IN  IF ~client.ok THEN Outcome(Err(client.err), slot, <<>>, <<>>)
        ELSE IF ~resp.arrived
        THEN Outcome(Err(<<"Network error: ", "error sending request">>),
                     slot, <<req>>, <<>>)
        ELSE IF IsSuccess(resp.status)
        THEN IF ~login_response.ok
             THEN Outcome(Err(<<"Failed to parse response: ">>
                              \o login_response.err), slot, <<req>>, <<>>)
             ELSE IF ~stored.res.ok
             THEN Outcome(Err(stored.res.err), stored.slot, <<req>>, stored.ops)
             ELSE Outcome(Ok(login_response.val), stored.slot, <<req>>,
                          stored.ops)
        ELSE Outcome(Err(<<"Login failed: ", TextOrUnknown(resp.body)>>),
                     slot, <<req>>, <<>>)

\* Mutant: a request that failed in transport is sent a second time.
get_tables_retrying(slot, api_url, f, resp) ==
    LET client == create_http_client(f.client)
        read == get_token_from_keyring(slot, f)
        token == IF read.ok THEN Some(read.val) ELSE None
        req == Request(client.val, "GET", <<api_url, "/api/tables">>,
                       IF IsSome(token) THEN Some(Bearer(Unwrap(token)))
                                        ELSE None,
                       None, None)
        api_response == JsonApiResponse(resp.body, "tables")
    IN  IF ~client.ok THEN Outcome(Err(client.err), slot, <<>>, <<>>)
        ELSE IF ~resp.arrived
        THEN Outcome(Err(<<"error sending request">>), slot, <<req, req>>,
                     KeyringReadOps(f))
        ELSE IF ~IsSuccess(resp.status)
        THEN Outcome(Err(<<"Failed to fetch tables">>), slot, <<req>>,
                     KeyringReadOps(f))
        ELSE IF ~api_response.ok
        THEN Outcome(Err(api_response.err), slot, <<req>>, KeyringReadOps(f))
        ELSE IF api_response.val.success
        THEN Outcome(Ok(IF IsSome(api_response.val.data)
                        THEN Unwrap(api_response.val.data) ELSE <<>>),
                     slot, <<req>>, KeyringReadOps(f))
        ELSE Outcome(Err(<<ErrorMessage(api_response.val)>>), slot, <<req>>,
                     KeyringReadOps(f))

\* -------------------------------------------------------------- get_tables
get_tables(slot, api_url, f, resp) ==
    LET client == create_http_client(f.client)
        read == get_token_from_keyring(slot, f)
        token == IF read.ok THEN Some(read.val) ELSE None
        req == Request(client.val, "GET", <<api_url, "/api/tables">>,
                       IF IsSome(token) THEN Some(Bearer(Unwrap(token)))
                                        ELSE None,
                       None, None)
        api_response == JsonApiResponse(resp.body, "tables")
    IN  IF ~client.ok THEN Outcome(Err(client.err), slot, <<>>, <<>>)
        ELSE IF ~resp.arrived
        THEN Outcome(Err(<<"error sending request">>), slot, <<req>>,
                     KeyringReadOps(f))
        ELSE IF ~IsSuccess(resp.status)
        THEN Outcome(Err(<<"Failed to fetch tables">>), slot, <<req>>,
                     KeyringReadOps(f))
        ELSE IF ~api_response.ok
        THEN Outcome(Err(api_response.err), slot, <<req>>, KeyringReadOps(f))
        ELSE IF api_response.val.success
        THEN Outcome(Ok(IF IsSome(api_response.val.data)
                        THEN Unwrap(api_response.val.data) ELSE <<>>),
                     slot, <<req>>, KeyringReadOps(f))
        ELSE Outcome(Err(<<ErrorMessage(api_response.val)>>), slot, <<req>>,
                     KeyringReadOps(f))

\* ------------------------------------------------------------- create_table
create_table(slot, api_url, config, f, resp) ==
    LET client == create_http_client(f.client)
        token == get_token_from_keyring(slot, f)
        req == Request(client.val, "POST", <<api_url, "/api/tables">>,
                       Some(Bearer(token.val)), Some("application/json"),
                       Some(config))
        api_response == JsonApiResponse(resp.body, "table")
    IN  IF ~client.ok THEN Outcome(Err(client.err), slot, <<>>, <<>>)
        ELSE IF ~token.ok
        THEN Outcome(Err(<<"Not authenticated">>), slot, <<>>,
                     KeyringReadOps(f))
        ELSE IF ~resp.arrived
        THEN Outcome(Err(<<"error sending request">>), slot, <<req>>,
                     KeyringReadOps(f))
        ELSE IF ~IsSuccess(resp.status)
        THEN Outcome(Err(<<"Failed to create table: ",
                           TextOrUnknown(resp.body)>>),
                     slot, <<req>>, KeyringReadOps(f))
        ELSE IF ~api_response.ok
        THEN Outcome(Err(api_response.err), slot, <<req>>, KeyringReadOps(f))
        ELSE IF api_response.val.success
        THEN IF IsSome(api_response.val.data)
             THEN Outcome(Ok(Unwrap(api_response.val.data)), slot, <<req>>,
                          KeyringReadOps(f))
             ELSE Outcome(Err(<<"No table data returned">>), slot, <<req>>,
                          KeyringReadOps(f))
        ELSE Outcome(Err(<<ErrorMessage(api_response.val)>>), slot, <<req>>,
                     KeyringReadOps(f))

\* --------------------------------------------------------------- join_table
join_table(slot, api_url, table_id, buy_in, f, resp) ==
    LET client == create_http_client(f.client)
        token == get_token_from_keyring(slot, f)
        req == Request(client.val, "POST",
                       <<api_url, "/api/tables/", table_id, "/join">>,
                       Some(Bearer(token.val)), Some("application/json"),
                       Some([buyIn |-> buy_in]))
        api_response == JsonApiResponse(resp.body, "value")
    IN  IF ~client.ok THEN Outcome(Err(client.err), slot, <<>>, <<>>)
        ELSE IF ~token.ok
        THEN Outcome(Err(<<"Not authenticated">>), slot, <<>>,
                     KeyringReadOps(f))
        ELSE IF ~resp.arrived
        THEN Outcome(Err(<<"error sending request">>), slot, <<req>>,
                     KeyringReadOps(f))
        ELSE IF ~IsSuccess(resp.status)
        THEN Outcome(Err(<<"Failed to join table: ",
                           TextOrUnknown(resp.body)>>),
                     slot, <<req>>, KeyringReadOps(f))
        ELSE IF ~api_response.ok
        THEN Outcome(Err(api_response.err), slot, <<req>>, KeyringReadOps(f))
        ELSE IF api_response.val.success
        THEN Outcome(Ok(IF IsSome(api_response.val.data)
                        THEN Unwrap(api_response.val.data) ELSE EmptyObject),
                     slot, <<req>>, KeyringReadOps(f))
        ELSE Outcome(Err(<<ErrorMessage(api_response.val)>>), slot, <<req>>,
                     KeyringReadOps(f))

\* ------------------------------------------------------------- environment
\* What the callers pass in.
ApiUrls == {"https://poker.example"}
ProbeUrls == ApiUrls \cup {"http://localhost:8787"}
Emails == {"alice@example.com"}
Passwords == {"hunter2"}
TableIds == {"t1"}
BuyIns == {100}
TableConfigs == {[name |-> "Main", maxPlayers |-> 9, isPrivate |-> FALSE]}
ElapsedMs == {0, 120}

\* What the backend may answer.
SampleUser == [id |-> "1", username |-> "alice", email |-> "alice@example.com"]
SampleTable == [id |-> Some("t1"), name |-> "Main", blinds |-> Some("1/2")]
BrokenTable == [id |-> None, name |-> "Main", blinds |-> Some("1/2")]
SampleError == [message |-> "Table is full"]
Tokens(a, r) == [accessToken |-> a, refreshToken |-> r]

LoginDocs ==
    { JsonDoc(None, None, None, Some(SampleUser),
              Some(Tokens(Some("access-1"), Some("refresh-1"))), Some("ok")),
      JsonDoc(None, None, None, Some(SampleUser),
              Some(Tokens(Some("access-2"), Some("refresh-2"))), Some("ok")),
      JsonDoc(None, None, None, Some(SampleUser),
              Some(Tokens(Some("access-1"), None)), Some("ok")),
      JsonDoc(None, None, None, Some(SampleUser), None, Some("ok")) }

EnvelopeDocs ==
    { JsonDoc(Some(TRUE), Some(JsonValue("array", <<SampleTable>>)),
              None, None, None, None),
      JsonDoc(Some(TRUE), Some(JsonValue("array", <<BrokenTable>>)),
              None, None, None, None),
      JsonDoc(Some(TRUE), Some(JsonValue("object", <<SampleTable>>)),
              None, None, None, None),
      JsonDoc(Some(TRUE), None, None, None, None, None),
      JsonDoc(Some(FALSE), None, Some(SampleError), None, None, None),
      JsonDoc(Some(FALSE), None, None, None, None, None),
      JsonDoc(Some(FALSE), Some(JsonValue("object", <<SampleTable>>)),
              Some(SampleError), None, None, None) }

Body(readable, text, json) == [readable |-> readable, text |-> text, json |-> json]

EmptyBody == Body(FALSE, "", None)

DocText(doc) ==
    IF IsSome(doc.tokens) THEN "{login payload}"
    ELSE IF IsSome(doc.success) THEN "{envelope}"
    ELSE "{object}"

JsonBody(doc) == Body(TRUE, DocText(doc), Some(doc))

PlainBody == Body(TRUE, "Service Unavailable", None)

Response(arrived, status, body) ==
    [arrived |-> arrived, status |-> status, body |-> body]

\* request.send().await failed: no response at all.
TransportError == Response(FALSE, 0, EmptyBody)

\* A refusal: a non-success status with a plain, a JSON or an unreadable body.
Refusals ==
    { Response(TRUE, 401, b) :
        b \in {PlainBody, EmptyBody,
               JsonBody(JsonDoc(Some(FALSE), None, Some(SampleError),
                                None, None, None))} }

HealthResponses ==
    {TransportError, Response(TRUE, 200, PlainBody),
     Response(TRUE, 503, PlainBody)}

LoginResponses ==
    {TransportError} \cup Refusals
    \cup { Response(TRUE, 200, JsonBody(doc)) : doc \in LoginDocs }
    \cup { Response(TRUE, 200, PlainBody), Response(TRUE, 200, EmptyBody) }

TableResponses ==
    {TransportError} \cup Refusals
    \cup { Response(TRUE, 201, JsonBody(doc)) : doc \in EnvelopeDocs }
    \cup { Response(TRUE, 200, PlainBody), Response(TRUE, 200, EmptyBody) }

\* ------------------------------------------------------------------ actions
Invocation(op, api_url, f, resp, out) ==
    [op |-> op, api_url |-> api_url, at |-> now, pre |-> keyring, f |-> f,
     resp |-> resp, result |-> out.result, sent |-> out.sent,
     storeOps |-> out.storeOps]

\* No get_auth_token is between its two keyring steps.
Idle ==
    [phase |-> "idle", read |-> None, at |-> 0, f |-> NoFaults,
     deleted |-> None, doneAt |-> 0]

Init ==
    /\ now = 0
    /\ keyring = None
    /\ last = Invocation("init", "", NoFaults, TransportError,
                         Outcome(Ok(Unit), None, <<>>, <<>>))
    /\ issued = None
    /\ inflight = Idle

\* The wall clock moves on between invocations.
Tick ==
    /\ now + TickHours <= MaxTime
    /\ now' = now + TickHours
    /\ UNCHANGED <<keyring, last, issued, inflight>>

CheckBackendConnection ==
    \E api_url \in ProbeUrls, f \in Faults({"client"}),
       resp \in HealthResponses,
       elapsed \in ElapsedMs :
        LET out == check_backend_connection(keyring, api_url, f, resp, elapsed)
        IN  /\ keyring' = out.slot
            /\ last' = Invocation("check_backend_connection", api_url, f, resp, out)
            /\ UNCHANGED <<now, issued, inflight>>

Login ==
    \E api_url \in ApiUrls, email \in Emails, password \in Passwords,
       f \in Faults({"client", "entry", "ser", "set"}),
       resp \in LoginResponses :
        LET out == login(keyring, now, api_url, email, password, f, resp)
        IN  /\ keyring' = out.slot
            /\ last' = Invocation("login", api_url, f, resp, out)
            /\ issued' = IF out.result.ok
                         THEN Some(AuthToken(out.result.val.tokens.access_token,
                                             out.result.val.tokens.refresh_token,
                                             now + TokenLifetimeHours))
                         ELSE issued
            /\ UNCHANGED <<now, inflight>>

GetAuthToken ==
    \E f \in Faults({"entry", "get", "delete"}) :
        LET out == get_auth_token(keyring, now, f)
        IN  /\ keyring' = out.slot
            /\ last' = Invocation("get_auth_token", "", f, TransportError, out)
            /\ UNCHANGED <<now, issued, inflight>>

Logout ==
    \E f \in Faults({"entry", "delete"}) :
        LET out == logout(keyring, f)
        IN  /\ keyring' = out.slot
            /\ last' = Invocation("logout", "", f, TransportError, out)
            /\ UNCHANGED <<now, issued, inflight>>

GetUser ==
    \E f \in Faults({"entry", "get"}) :
        LET out == get_user(keyring, f)
        IN  /\ keyring' = out.slot
            /\ last' = Invocation("get_user", "", f, TransportError, out)
            /\ UNCHANGED <<now, issued, inflight>>

GetTables ==
    \E api_url \in ApiUrls, f \in Faults({"client", "entry", "get"}),
       resp \in TableResponses :
        LET out == get_tables(keyring, api_url, f, resp)
        IN  /\ keyring' = out.slot
            /\ last' = Invocation("get_tables", api_url, f, resp, out)
            /\ UNCHANGED <<now, issued, inflight>>

CreateTable ==
    \E api_url \in ApiUrls, config \in TableConfigs,
       f \in Faults({"client", "entry", "get"}), resp \in TableResponses :
        LET out == create_table(keyring, api_url, config, f, resp)
        IN  /\ keyring' = out.slot
            /\ last' = Invocation("create_table", api_url, f, resp, out)
            /\ UNCHANGED <<now, issued, inflight>>

JoinTable ==
    \E api_url \in ApiUrls, table_id \in TableIds, buy_in \in BuyIns,
       f \in Faults({"client", "entry", "get"}), resp \in TableResponses :
        LET out == join_table(keyring, api_url, table_id, buy_in, f, resp)
        IN  /\ keyring' = out.slot
            /\ last' = Invocation("join_table", api_url, f, resp, out)
            /\ UNCHANGED <<now, issued, inflight>>

Next ==
    \/ Tick
    \/ CheckBackendConnection
    \/ Login
    \/ GetAuthToken
    \/ Logout
    \/ GetUser
    \/ GetTables
    \/ CreateTable
    \/ JoinTable

Spec == Init /\ [][Next]_vars

\* ------------------------------------------------- concurrent invocations
\* Tauri runs async commands on a thread pool, so a command's keyring steps
\* interleave with those of other commands; each single get, set or delete
\* is atomic.  login and logout perform one keyring step each and stay one
\* action; get_auth_token performs get_password and, on an expired
\* credential, delete_password later.

\* get_auth_token up to its expiry check: it returns at once unless the
\* credential it read is expired, and then the delete is still to come.
GetAuthTokenRead ==
    /\ inflight.phase # "read"
    /\ \E f \in Faults({"entry", "get", "delete"}) :
        LET out == get_auth_token(keyring, now, f)
        IN  IF out.storeOps = <<"get", "delete">>
            THEN /\ inflight' = [phase |-> "read", read |-> keyring, at |-> now,
                                 f |-> f, deleted |-> None, doneAt |-> now]
                 /\ UNCHANGED <<now, keyring, last, issued>>
            ELSE /\ last' = Invocation("get_auth_token", "", f,
                                       TransportError, out)
                 /\ inflight' = Idle
                 /\ UNCHANGED <<now, keyring, issued>>

\* let _ = entry.delete_password(); Ok(None): the delete acts on whatever
\* the slot holds by now.
GetAuthTokenEvict ==
    /\ inflight.phase = "read"
    /\ LET del == DeletePassword(keyring, inflight.f.delete)
           out == Outcome(Ok(None), del.slot, <<>>, <<"get", "delete">>)
       IN  /\ keyring' = del.slot
           /\ inflight' = [inflight EXCEPT
                             !.phase = "evicted",
                             !.deleted = IF del.res.ok THEN keyring ELSE None,
                             !.doneAt = now]
           /\ last' = [Invocation("get_auth_token", "", inflight.f,
                                  TransportError, out)
                         EXCEPT !.pre = inflight.read, !.at = inflight.at]
           /\ UNCHANGED <<now, issued>>

NextConc ==
    \/ Tick
    \/ Login
    \/ Logout
    \/ GetAuthTokenRead
    \/ GetAuthTokenEvict

SpecConc == Init /\ [][NextConc]_vars

\* ------------------------------------------------------------------- types
TypeOK ==
    /\ now \in 0..MaxTime
    /\ Len(keyring) <= 1
    /\ last.at <= now

\* ===================================================================== claims
\* The statements below read the last invocation: the slot before it
\* (last.pre), the time it ran (last.at), the faults and the response it
\* met, its result, the requests it sent, and the slot after it (keyring).

\* The credential a slot holds, read field by field from the stored JSON.
SlotCredential(slot) ==
    [access_token |-> Unwrap(slot)[1], refresh_token |-> Unwrap(slot)[2],
     expires_at |-> Unwrap(slot)[3]]

Usable(slot, t) == IsSome(slot) /\ SlotCredential(slot).expires_at > t
Stale(slot, t) == IsSome(slot) /\ SlotCredential(slot).expires_at <= t

SuccessStatus(resp) == resp.arrived /\ resp.status >= 200 /\ resp.status <= 299

\* The response body is a login payload: user, both tokens and a message.
LoginPayload(resp) ==
    /\ resp.body.readable
    /\ IsSome(resp.body.json)
    /\ IsSome(Unwrap(resp.body.json).user)
    /\ IsSome(Unwrap(resp.body.json).tokens)
    /\ IsSome(Unwrap(Unwrap(resp.body.json).tokens).accessToken)
    /\ IsSome(Unwrap(Unwrap(resp.body.json).tokens).refreshToken)
    /\ IsSome(Unwrap(resp.body.json).message)

PayloadAccess(resp) == Unwrap(Unwrap(Unwrap(resp.body.json).tokens).accessToken)
PayloadRefresh(resp) == Unwrap(Unwrap(Unwrap(resp.body.json).tokens).refreshToken)

StoreWriteFault(f) == f.entry \/ f.ser \/ f.set

TableOps == {"get_tables", "create_table", "join_table"}

\* ------------------------------------------------------------------------ C1
\* C1: every request that get_tables, create_table or join_table sends with
\* an Authorization: Bearer header carries the access token of a credential
\* whose expiresAt was strictly after the time of the read; create_table and
\* join_table invoked on an expired credential fail with "Not authenticated"
\* and send no request.
C1_BearerOnlyFromUsableCredential ==
    last.op \in TableOps =>
        /\ \A i \in 1..Len(last.sent) :
              IsSome(last.sent[i].authorization) =>
                  /\ Usable(last.pre, last.at)
                  /\ last.sent[i].authorization
                       = Some(<<"Bearer ", SlotCredential(last.pre).access_token>>)
        /\ ( /\ last.op \in {"create_table", "join_table"}
             /\ Stale(last.pre, last.at)
             /\ ~last.f.client )
           => /\ last.result = Err(<<"Not authenticated">>)
              /\ last.sent = <<>>

C3_ValidReadReturnsCredential ==
    (last.op = "get_auth_token" /\ Usable(last.pre, last.at)) =>
        /\ last.result = Ok(Some(SlotCredential(last.pre)))
        /\ keyring = last.pre

\* C3 amended: on such a credential get_auth_token leaves the slot unchanged
\* and never deletes; it returns exactly that credential whenever the keyring
\* entry can be opened and read, Ok(None) when the read fails, and a keyring
\* error when the entry cannot be opened.
C3_ValidReadWhenKeyringAnswers ==
    (last.op = "get_auth_token" /\ Usable(last.pre, last.at)) =>
        /\ keyring = last.pre
        /\ \A i \in 1..Len(last.storeOps) : last.storeOps[i] = "get"
        /\ (~last.f.entry /\ ~last.f.get) =>
              last.result = Ok(Some(SlotCredential(last.pre)))
        /\ last.f.get => last.result = Ok(None)
        /\ last.f.entry =>
              (~last.result.ok /\ last.result.err[1] = "Keyring error: ")

C3_Witness ==
    /\ last.op = "get_auth_token"
    /\ Usable(last.pre, last.at)
    /\ last.at > 0
    /\ ~last.f.entry /\ ~last.f.get
    /\ last.result = Ok(Some(SlotCredential(last.pre)))
    /\ keyring = last.pre

\* ------------------------------------------------------------------------ C4
\* C4 as stated: create_table and join_table invoked on an empty slot fail
\* with "Not authenticated" and send no request.
C4_NoCredentialNotAuthenticated ==
    (last.op \in {"create_table", "join_table"} /\ last.pre = None) =>
        /\ last.result = Err(<<"Not authenticated">>)
        /\ last.sent = <<>>

\* C4 amended: create_table and join_table invoked on an empty slot fail and
\* send no request; the error is "Not authenticated" whenever the HTTP client
\* could be built, and the client-construction error otherwise.
C4_NoCredentialFailsWithoutRequest ==
    (last.op \in {"create_table", "join_table"} /\ last.pre = None) =>
        /\ ~last.result.ok
        /\ last.sent = <<>>
        /\ keyring = None
        /\ ~last.f.client => last.result = Err(<<"Not authenticated">>)
        /\ last.f.client =>
              last.result.err[1] = "Failed to create HTTP client: "

C4_Witness ==
    /\ last.op \in {"create_table", "join_table"}
    /\ last.pre = None
    /\ last.f = NoFaults
    /\ SuccessStatus(last.resp)
    /\ last.result = Err(<<"Not authenticated">>)
    /\ last.sent = <<>>

\* ------------------------------------------------------------------------ C5
\* The response is a success=true envelope of a list of tables.
TablesEnvelope(resp) ==
    /\ resp.body.readable
    /\ IsSome(resp.body.json)
    /\ Unwrap(resp.body.json).success = Some(TRUE)
    /\ IsSome(Unwrap(resp.body.json).data) =>
          /\ Unwrap(Unwrap(resp.body.json).data).kind = "array"
          /\ \A i \in 1..Len(Unwrap(Unwrap(resp.body.json).data).items) :
                /\ IsSome(Unwrap(Unwrap(resp.body.json).data).items[i].id)
                /\ IsSome(Unwrap(Unwrap(resp.body.json).data).items[i].blinds)

UnauthenticatedList(api_url, sent) ==
    /\ Len(sent) = 1
    /\ sent[1].method = "GET"
    /\ sent[1].url = <<api_url, "/api/tables">>
    /\ sent[1].authorization = None

\* C5 as stated: get_tables invoked on an empty slot still sends one
\* GET /api/tables without an Authorization header, and succeeds whenever the
\* backend answers a success status and a success=true envelope.
C5_ListWithoutCredential ==
    (last.op = "get_tables" /\ last.pre = None) =>
        /\ UnauthenticatedList(last.api_url, last.sent)
        /\ (SuccessStatus(last.resp) /\ TablesEnvelope(last.resp)) =>
              last.result.ok

\* C5 amended: the same, once the HTTP client has been built; when the client
\* cannot be built get_tables fails with that error and sends nothing.
C5_ListWithoutCredentialOnceClientBuilt ==
    (last.op = "get_tables" /\ last.pre = None) =>
        /\ ~last.f.client =>
              /\ UnauthenticatedList(last.api_url, last.sent)
              /\ (SuccessStatus(last.resp) /\ TablesEnvelope(last.resp)) =>
                    last.result.ok
        /\ last.f.client =>
              /\ last.sent = <<>>
              /\ ~last.result.ok
              /\ last.result.err[1] = "Failed to create HTTP client: "

C5_Witness ==
    /\ last.op = "get_tables"
    /\ last.pre = None
    /\ UnauthenticatedList(last.api_url, last.sent)
    /\ SuccessStatus(last.resp)
    /\ TablesEnvelope(last.resp)
    /\ last.result.ok
    /\ Len(last.result.val) = 1

\* ------------------------------------------------------------------------ C6
\* C6: a login that receives a success status and a login payload, and whose
\* store write succeeds, leaves in the slot the credential made of the
\* response's access and refresh tokens and of the issuance time plus 24
\* hours, whatever the slot held before.
C6_LoginStoresCredential ==
    ( /\ last.op = "login"
      /\ ~last.f.client
      /\ SuccessStatus(last.resp)
      /\ LoginPayload(last.resp)
      /\ ~StoreWriteFault(last.f) ) =>
        /\ IsSome(keyring)
        /\ SlotCredential(keyring).access_token = PayloadAccess(last.resp)
        /\ SlotCredential(keyring).refresh_token = PayloadRefresh(last.resp)
        /\ SlotCredential(keyring).expires_at = last.at + 24
        /\ Len(Unwrap(keyring)) = 3
        /\ last.result.ok

C6_Witness ==
    /\ last.op = "login"
    /\ SuccessStatus(last.resp)
    /\ LoginPayload(last.resp)
    /\ last.result.ok
    /\ IsSome(last.pre)
    /\ SlotCredential(last.pre).access_token # PayloadAccess(last.resp)
    /\ SlotCredential(last.pre).expires_at < last.at + 24
    /\ keyring = Some(<<PayloadAccess(last.resp), PayloadRefresh(last.resp),
                        last.at + 24>>)

\* ------------------------------------------------------------------------ C7
\* C7: login returns success only if the credential built from the response
\* was written to the slot; whenever the store write fails (entry creation,
\* serialization or set) login returns a failure, never the payload.
C7_LoginSucceedsOnlyIfStored ==
    last.op = "login" =>
        /\ last.result.ok =>
              /\ last.storeOps = <<"set">>
              /\ keyring = Some(<<PayloadAccess(last.resp),
                                  PayloadRefresh(last.resp), last.at + 24>>)
        /\ StoreWriteFault(last.f) =>
              /\ ~last.result.ok
              /\ keyring = last.pre

C7_Witness ==
    /\ last.op = "login"
    /\ SuccessStatus(last.resp)
    /\ LoginPayload(last.resp)
    /\ last.f.set
    /\ ~last.result.ok
    /\ last.result.err[1] = "Failed to store token: "
    /\ IsSome(last.pre)
    /\ keyring = last.pre

\* ------------------------------------------------------------------------ C8
\* C8: a login that receives a non-success status, or fails with a network
\* error or on an unparsable body, never writes to the slot: the slot after
\* it is the slot before it.
C8_FailedLoginKeepsSlot ==
    ( /\ last.op = "login"
      /\ \/ ~last.resp.arrived
         \/ ~SuccessStatus(last.resp)
         \/ ~LoginPayload(last.resp) ) =>
        /\ ~last.result.ok
        /\ keyring = last.pre
        /\ last.storeOps = <<>>

C8_Witness ==
    /\ last.op = "login"
    /\ last.f = NoFaults
    /\ last.resp.arrived
    /\ ~SuccessStatus(last.resp)
    /\ last.result.err[1] = "Login failed: "
    /\ IsSome(last.pre)
    /\ keyring = last.pre

\* ------------------------------------------------------------------------ C9
\* C9 as stated: logout returns success and leaves the slot empty, on an
\* empty slot as on one holding a credential, however often it is called.
C9_LogoutAlwaysSucceeds ==
    last.op = "logout" =>
        /\ last.result = Ok(Unit)
        /\ keyring = None

\* C9 amended: logout is idempotent while the keyring works: on an empty slot
\* it returns success (NoEntry is not an error), on a slot holding a
\* credential it returns success and leaves the slot empty, and further calls
\* keep the slot empty; when the keyring entry cannot be opened, or the delete
\* fails for another reason than NoEntry, logout returns an error and the
\* slot is as it was.
C9_LogoutIdempotentWhileKeyringWorks ==
    last.op = "logout" =>
        /\ last.f = NoFaults => (last.result = Ok(Unit) /\ keyring = None)
        /\ last.pre = None => keyring = None
        /\ last.f # NoFaults =>
              /\ ~last.result.ok
              /\ keyring = last.pre
              /\ last.result.err[1] \in {"Keyring error: ", "Failed to logout: "}
        /\ last.sent = <<>>

C9_Witness ==
    /\ last.op = "logout"
    /\ last.pre = None
    /\ last.f = NoFaults
    /\ last.storeOps = <<"delete">>
    /\ last.result = Ok(Unit)
    /\ keyring = None
    /\ now > 0

\* ----------------------------------------------------------------------- C10
ProbeAnswer(resp, api_url, status) ==
    /\ status.backend_url = api_url
    /\ ~resp.arrived => (status.connected = FALSE /\ status.latency_ms = None)
    /\ resp.arrived =>
          /\ status.connected = (resp.status >= 200 /\ resp.status <= 299)
          /\ status.latency_ms # None

\* C10 as stated: check_backend_connection never returns a failure; it
\* answers {connected: false, backendUrl, latencyMs: absent} on a transport
\* failure and connected = (success status) with a latency on any response,
\* backendUrl being the caller's URL, and never touches the keyring.
C10_ProbeNeverFails ==
    last.op = "check_backend_connection" =>
        /\ last.result.ok
        /\ ProbeAnswer(last.resp, last.api_url, last.result.val)
        /\ keyring = last.pre
        /\ last.storeOps = <<>>

\* C10 amended: the same once the HTTP client has been built; a client that
\* cannot be built is returned as the failure "Failed to create HTTP client",
\* before any request is sent.  The keyring is never touched.
C10_ProbeNeverFailsOnceClientBuilt ==
    last.op = "check_backend_connection" =>
        /\ keyring = last.pre
        /\ last.storeOps = <<>>
        /\ ~last.f.client =>
              /\ last.result.ok
              /\ ProbeAnswer(last.resp, last.api_url, last.result.val)
              /\ Len(last.sent) = 1
        /\ last.f.client =>
              /\ ~last.result.ok
              /\ last.result.err[1] = "Failed to create HTTP client: "
              /\ last.sent = <<>>

C10_Witness ==
    /\ last.op = "check_backend_connection"
    /\ ~last.f.client
    /\ ~last.resp.arrived
    /\ IsSome(keyring)
    /\ last.result =
         Ok([connected |-> FALSE, backend_url |-> last.api_url,
             latency_ms |-> None])

\* ----------------------------------------------------------------------- C11
\* The data field, when present, has the shape the operation decodes:
\* a list of tables, one table, or any JSON value.
DataFits(op, data) ==
    \/ ~IsSome(data)
    \/ op = "join_table"
    \/ /\ op = "get_tables"
       /\ Unwrap(data).kind = "array"
       /\ \A i \in 1..Len(Unwrap(data).items) :
             /\ IsSome(Unwrap(data).items[i].id)
             /\ IsSome(Unwrap(data).items[i].blinds)
    \/ /\ op = "create_table"
       /\ Unwrap(data).kind = "object"
       /\ Len(Unwrap(data).items) = 1
       /\ IsSome(Unwrap(data).items[1].id)
       /\ IsSome(Unwrap(data).items[1].blinds)

\* The invocation sent its request and got a success status whose body is
\* an envelope of the operation, with the given success flag.
AnsweredEnvelope(inv, success) ==
    /\ inv.op \in TableOps
    /\ Len(inv.sent) = 1
    /\ SuccessStatus(inv.resp)
    /\ inv.resp.body.readable
    /\ IsSome(inv.resp.body.json)
    /\ Unwrap(inv.resp.body.json).success = Some(success)
    /\ DataFits(inv.op, Unwrap(inv.resp.body.json).data)

\* C11: for get_tables, create_table and join_table a success-status
\* response whose envelope has success=false yields a failure whose message
\* is exactly error.message when the error field is present and the generic
\* "Unknown error" when it is absent; never a successful result, whether or
\* not data is populated.
C11_BackendErrorSurfaced ==
    AnsweredEnvelope(last, FALSE) =>
        /\ ~last.result.ok
        /\ IsSome(Unwrap(last.resp.body.json).error) =>
              last.result.err
                = <<Unwrap(Unwrap(last.resp.body.json).error).message>>
        /\ ~IsSome(Unwrap(last.resp.body.json).error) =>
              last.result.err = <<"Unknown error">>

C11_Witness ==
    /\ AnsweredEnvelope(last, FALSE)
    /\ last.op = "create_table"
    /\ IsSome(Unwrap(last.resp.body.json).data)
    /\ last.result = Err(<<"Table is full">>)

\* ----------------------------------------------------------------------- C12
\* C12 as stated: for get_tables, create_table and join_table a
\* success-status response whose envelope has success=true and no data field
\* is reported as a successful empty or default result, never as an error.
C12_AbsentDataIsEmptySuccess ==
    ( /\ AnsweredEnvelope(last, TRUE)
      /\ ~IsSome(Unwrap(last.resp.body.json).data) ) =>
        /\ last.result.ok
        /\ last.op = "get_tables" => last.result.val = <<>>
        /\ last.op = "join_table" =>
              last.result.val = [kind |-> "object", items |-> <<>>]

\* C12 amended: on such a response get_tables succeeds with the empty list
\* and join_table with the empty object; create_table, which has no default
\* table to hand back, fails with "No table data returned".
C12_AbsentDataPerOperation ==
    ( /\ AnsweredEnvelope(last, TRUE)
      /\ ~IsSome(Unwrap(last.resp.body.json).data) ) =>
        /\ last.op = "get_tables" => last.result = Ok(<<>>)
        /\ last.op = "join_table" =>
              last.result = Ok([kind |-> "object", items |-> <<>>])
        /\ last.op = "create_table" =>
              last.result = Err(<<"No table data returned">>)
        /\ keyring = last.pre

C12_Witness ==
    /\ AnsweredEnvelope(last, TRUE)
    /\ ~IsSome(Unwrap(last.resp.body.json).data)
    /\ last.op = "join_table"
    /\ last.result = Ok([kind |-> "object", items |-> <<>>])

\* ----------------------------------------------------------------------- C13
\* The invocation sent its request and got a non-success status.
Refused(inv) ==
    /\ inv.op \in TableOps \cup {"login"}
    /\ Len(inv.sent) = 1
    /\ inv.resp.arrived
    /\ ~(inv.resp.status >= 200 /\ inv.resp.status <= 299)

\* C13: for login, get_tables, create_table and join_table a non-success
\* status makes the operation fail with a message that carries the raw
\* response body, or "Unknown error" when the body is unreadable; the body
\* is never decoded as an envelope on this path.
C13_RefusalCarriesRawBody ==
    Refused(last) =>
        /\ ~last.result.ok
        /\ last.result.err[Len(last.result.err)]
             = (IF last.resp.body.readable THEN last.resp.body.text
                ELSE "Unknown error")
        /\ ( /\ last.resp.body.readable
             /\ IsSome(last.resp.body.json)
             /\ IsSome(Unwrap(last.resp.body.json).error) )
           => last.result.err
                # <<Unwrap(Unwrap(last.resp.body.json).error).message>>

\* ----------------------------------------------------------------------- C14
\* C14: under any interleaving of the commands' atomic keyring steps, the
\* eviction performed by a get_auth_token that read an older, expired
\* credential never deletes a newer, still-valid credential stored in
\* between: what it deletes is the credential it read.
C14_EvictionSparesNewerCredential ==
    inflight.phase = "evicted" =>
        ~( /\ IsSome(inflight.deleted)
           /\ inflight.deleted # inflight.read
           /\ Usable(inflight.deleted, inflight.doneAt) )

\* ----------------------------------------------------------------------- C15
\* C15: every operation that reads the stored credential (get_auth_token,
\* get_user, get_tables, create_table, join_table) applies the expiry policy
\* on that read: on an expired credential it deletes the entry, so the slot
\* is empty afterwards, and it proceeds as if no credential were stored.
C15_EveryReadEvicts ==
    ( /\ last.op \in {"get_auth_token", "get_user"} \cup TableOps
      /\ Stale(last.pre, last.at)
      /\ last.f = NoFaults ) =>
        /\ keyring = None
        /\ last.op \in {"get_auth_token", "get_user"} => last.result = Ok(None)
        /\ \A i \in 1..Len(last.sent) : last.sent[i].authorization = None
        /\ last.op \in {"create_table", "join_table"} =>
              last.result = Err(<<"Not authenticated">>)

\* ----------------------------------------------------------------------- C16
\* A credential that get_auth_token hands out expires strictly after the
\* time of the call, is the one the slot held, and is the one the most
\* recent successful login stored.
ReturnedCredentialIsLive ==
    ( /\ last.op = "get_auth_token"
      /\ last.result.ok
      /\ last.result.val # None ) =>
        /\ last.result.val[1].expires_at > last.at
        /\ IsSome(last.pre)
        /\ last.result.val[1] = SlotCredential(last.pre)
        /\ issued = Some(last.result.val[1])

\* C16: expiry is terminal.  The clock never goes back and every credential
\* get_auth_token returns is still unexpired at the call, so a credential
\* once seen expired is never returned again; a credential is returned
\* again only when a later successful login has stored it.
C16_ExpiryIsTerminal ==
    /\ []ReturnedCredentialIsLive
    /\ [][now' >= now]_vars
    /\ [][(keyring' # keyring /\ keyring' # None) =>
             (last'.op = "login" /\ last'.result.ok)]_vars

C16_Witness ==
    /\ last.op = "get_auth_token"
    /\ IsSome(last.pre)
    /\ SlotCredential(last.pre).expires_at < last.at
    /\ last.f.delete
    /\ last.result = Ok(None)
    /\ keyring = last.pre

\* ----------------------------------------------------------------------- C17
NetworkOps == TableOps \cup {"login", "check_backend_connection"}

\* C17: no operation retries.  check_backend_connection, login, get_tables,
\* create_table and join_table send at most one request per invocation, and
\* a transport failure of that request ends the invocation at once, as a
\* failure or, for the probe, as the disconnected result; logout,
\* get_auth_token and get_user send no request at all.
C17_NoRetry ==
    /\ last.op \in NetworkOps =>
          /\ Len(last.sent) <= 1
          /\ (Len(last.sent) = 1 /\ ~last.resp.arrived) =>
                /\ keyring = last.pre
                /\ last.op # "check_backend_connection" => ~last.result.ok
                /\ last.op = "check_backend_connection" =>
                      /\ last.result.ok
                      /\ last.result.val.connected = FALSE
    /\ last.op \in {"logout", "get_auth_token", "get_user"} =>
          last.sent = <<>>

C17_Witness ==
    /\ last.op = "get_tables"
    /\ Len(last.sent) = 1
    /\ ~last.resp.arrived
    /\ last.result = Err(<<"error sending request">>)

\* ----------------------------------------------------------------------- C18
SlotIsIssued ==
    \/ keyring = None
    \/ /\ IsSome(issued)
       /\ Len(Unwrap(keyring)) = 3
       /\ SlotCredential(keyring) = issued[1]

LoginSet ==
    /\ last'.op = "login"
    /\ last'.result.ok
    /\ keyring' = Some(<<last'.result.val.tokens.access_token,
                         last'.result.val.tokens.refresh_token,
                         now + TokenLifetimeHours>>)

LogoutDelete ==
    /\ last'.op = "logout"
    /\ keyring' = None

ExpiryEviction ==
    /\ last'.op = "get_auth_token"
    /\ Stale(keyring, now)
    /\ keyring' = None

\* C18: in every reachable state the slot is empty or holds exactly the
\* credential of the most recent successful login (its tokens and its
\* issuance time + 24 h, unmodified); the slot changes only by login's set,
\* logout's delete or the expiry eviction, and check_backend_connection,
\* get_user, get_tables, create_table and join_table leave it as it was.
C18_SlotHoldsLastLogin ==
    /\ []SlotIsIssued
    /\ [][keyring' # keyring =>
            (LoginSet \/ LogoutDelete \/ ExpiryEviction)]_vars
    /\ [][last'.op \in TableOps \cup {"check_backend_connection", "get_user"} =>
            keyring' = keyring]_vars

C18_Witness ==
    /\ last.op = "join_table"
    /\ SuccessStatus(last.resp)
    /\ last.result.ok
    /\ IsSome(keyring)
    /\ keyring = last.pre
    /\ issued = Some(SlotCredential(keyring))

====
